---------------------------- MODULE Spec2Model ----------------------------
(***************************************************************************)
(* A model of htmd/parameterization/fftype.py: the atom-name canonicalizer *)
(* _canonicalizeAtomNames and one call of fftype(mol, rtfFile, prmFile,    *)
(* method, acCharges, tmpDir, netcharge), taken statement by statement.    *)
(*                                                                         *)
(* Molecule objects live in a heap (a sequence of records; a reference is  *)
(* an index, mol.copy() appends), so that aliasing and mutation of the     *)
(* caller's molecule are visible.  The external tools (antechamber,        *)
(* parmchk2, match-typer), the file readers (readPREPI, readFRCMOD,        *)
(* readRTF), the parmed constructors and Molecule.write are the            *)
(* environment: each of their outcomes is a nondeterministic choice from   *)
(* a small set.                                                            *)
(*                                                                         *)
(* Python's None is the empty tuple and a value x that is not None is the  *)
(* one-element tuple <<x>> wherever an argument is optional.  Partial      *)
(* charges are counted in halves of an elementary charge (exact in binary  *)
(* floating point), so that ties of round() happen.                        *)
(***************************************************************************)
EXTENDS Integers, Sequences, FiniteSets, TLC

VARIABLES
    input,        \* the value of the caller's molecule when the call starts
    args,         \* the arguments rtfFile, prmFile, method, acCharges, tmpDir, netcharge
    heap,         \* the Molecule objects; heap[1] is the caller's molecule
    mol,          \* fftype's local `mol`: a reference into heap
    renamed_mol,  \* fftype's local `renamed_mol`: a reference, 0 while unbound
    netcharge,    \* fftype's local `netcharge` (optional until line 101)
    pc,           \* the statement the call is at
    exc,          \* the exception raised (None while there is none)
    tmpobj,       \* the directory owned by the TemporaryDirectory object (None before line 115)
    tmpdir,       \* fftype's local `tmpdir`
    dirs,         \* the directories that exist
    files,        \* the files that exist, as <<directory, name>>
    procs,        \* the calls of subprocess.call so far: [cmd, cwd, returncode]
    reads,        \* the paths handed to a reader or a parameter-set constructor
    returncode,   \* fftype's local `returncode`
    prm,          \* fftype's local `prm`
    names, elements, atomtypes, charges, masses, impropers,  \* the reader's tuple
    result        \* the value returned (None until line 189)

readerVars == <<prm, names, elements, atomtypes, charges, masses, impropers>>
fsVars == <<tmpobj, tmpdir, dirs, files>>
vars == <<input, args, heap, mol, renamed_mol, netcharge, pc, exc, fsVars,
          procs, reads, returncode, readerVars, result>>

---------------------------------------------------------------------------
(* Bounds of the model *)

\* the largest molecule of a call of fftype
MaxAtoms == 2
\* the largest molecule handed to the canonicalizer alone
CanonMaxAtoms == 3
\* the exit codes of an external tool are 0..MaxReturnCode
MaxReturnCode == 1

---------------------------------------------------------------------------
(* Python values *)

None == <<>>
Some(x) == <<x>>
Val(o) == o[1]

\* bool(x) of an optional string: None and '' are false
Truthy(o) == o # None /\ Val(o) # ""

RECURSIVE SeqsOfLen(_, _)
SeqsOfLen(S, n) ==
    IF n = 0 THEN {<<>>}
    ELSE {Append(s, x) : s \in SeqsOfLen(S, n - 1), x \in S}

SeqsUpTo(S, n) == UNION {SeqsOfLen(S, k) : k \in 0..n}

RECURSIVE SumSeq(_)
SumSeq(s) == IF s = <<>> THEN 0 ELSE Head(s) + SumSeq(Tail(s))

RECURSIVE Join(_, _)
Join(sep, s) ==
    IF s = <<>> THEN ""
    ELSE IF Len(s) = 1 THEN s[1]
    ELSE s[1] \o sep \o Join(sep, Tail(s))

Reverse(s) == [i \in 1..Len(s) |-> s[Len(s) + 1 - i]]
Front(s) == SubSeq(s, 1, Len(s) - 1)

\* str.upper() on the element symbols of the model
upper(s) == CASE s = "Cl" -> "CL" [] OTHER -> s

\* str.lower() on the method names
\* the method spelled as given
lowerIdentity(s) == s

\* str.lower() on the method names
lower(s) == CASE s = "GAFF" -> "gaff" [] s = "GAFF2" -> "gaff2"
              [] s = "CGenFF_2b6" -> "cgenff_2b6" [] OTHER -> s

\* int(round(x)) for x = h/2: Python 3 and numpy round halves to even
RoundHalves(h) ==
    IF h % 2 = 0 THEN h \div 2
    ELSE LET f == (h - 1) \div 2 IN IF f % 2 = 0 THEN f ELSE f + 1

\* np.all(a == b) on one-dimensional arrays: equal shapes compare element by
\* element, a shape of (1,) is broadcast against the other, and two shapes
\* that do not broadcast compare unequal as a whole
NpAllEq(a, b) ==
    IF Len(a) = Len(b) THEN \A i \in 1..Len(a) : a[i] = b[i]
    ELSE IF Len(b) = 1 THEN \A i \in 1..Len(a) : a[i] = b[1]
    ELSE IF Len(a) = 1 THEN \A i \in 1..Len(b) : a[1] = b[i]
    ELSE FALSE

fftypemethods == <<"CGenFF_2b6", "GAFF", "GAFF2">>

Range(s) == {s[i] : i \in 1..Len(s)}

---------------------------------------------------------------------------
(* Molecules *)

numAtoms(m) == Len(m.element)

\* a Molecule built from per-atom records, not yet typed
MolOf(atoms) ==
    [name     |-> [i \in 1..Len(atoms) |-> atoms[i].name],
     element  |-> [i \in 1..Len(atoms) |-> atoms[i].element],
     segid    |-> [i \in 1..Len(atoms) |-> atoms[i].segid],
     resname  |-> [i \in 1..Len(atoms) |-> atoms[i].resname],
     charge   |-> [i \in 1..Len(atoms) |-> atoms[i].charge],
     atomtype |-> [i \in 1..Len(atoms) |-> ""],
     masses   |-> [i \in 1..Len(atoms) |-> 0],
     impropers |-> <<>>]

\* the atoms of the molecules fftype is called with: one already carries the
\* canonicalizer's sentinels and a canonical-looking name, and two spell the
\* same element in different case
AtomKinds ==
    {[name |-> "CA",  element |-> "C",  segid |-> "P", resname |-> "LIG", charge |-> 1],
     [name |-> "C1",  element |-> "Cl", segid |-> "L", resname |-> "MOL", charge |-> -1],
     [name |-> "CLX", element |-> "CL", segid |-> "P", resname |-> "LIG", charge |-> 2]}

\* the molecules fftype is called with have at least one atom
InputMolecules == {MolOf(a) : a \in SeqsUpTo(AtomKinds, MaxAtoms) \ {<<>>}}

\* the element symbols of the molecules handed to the canonicalizer alone
Elements == {"C", "H", "Cl", "CL"}

PlainAtom(e) == [name |-> "X", element |-> e, segid |-> "P", resname |-> "LIG", charge |-> 0]

Ethanolamine ==
    MolOf([i \in 1..9 |-> PlainAtom(<<"C", "C", "N", "H", "H", "H", "H", "H", "O">>[i])])

CanonMolecules ==
    {MolOf([i \in 1..Len(e) |-> PlainAtom(e[i])]) : e \in SeqsUpTo(Elements, CanonMaxAtoms)}
        \cup {Ethanolamine}

---------------------------------------------------------------------------
(* _canonicalizeAtomNames *)

\* the key of the counter of an atom of element e: the upper-cased symbol
counterKeyRaw(e) == e

counterKey(e) == upper(e)

\* sufices[name] = sufices.get(name, 0) + 1
ordinalFromZero(sufices, key) == IF key \in DOMAIN sufices THEN sufices[key] ELSE 0

nextOrdinal(sufices, key) == (IF key \in DOMAIN sufices THEN sufices[key] ELSE 0) + 1

\* the loop over the atoms, from atom i on (1-based), with the counters so far
RECURSIVE renameLoop(_, _, _)
renameLoop(m, i, sufices) ==
    IF i > numAtoms(m) THEN m
    ELSE LET key == counterKey(m.element[i])
             n   == nextOrdinal(sufices, key)
             nm  == upper(m.element[i]) \o ToString(n)
         IN renameLoop([m EXCEPT !.name[i] = nm], i + 1, (key :> n) @@ sufices)

\* the renamed molecule: segid 'L', resname 'MOL', names by element and ordinal
renamed(m) ==
    renameLoop([m EXCEPT !.segid = [i \in 1..numAtoms(m) |-> "L"],
                         !.resname = [i \in 1..numAtoms(m) |-> "MOL"]],
               1, <<>>)

\* the heap after the call on the molecule at r with a mutation in place
canonicalizeInPlace(h, r) == Append([h EXCEPT ![r] = renamed(h[r])], renamed(h[r]))

\* the heap after _canonicalizeAtomNames(mol) on the molecule at r: the copy is
\* a new object at Len(h) + 1, and it alone is renamed
canonicalizeAtomNames(h, r) == Append(h, renamed(h[r]))

---------------------------------------------------------------------------
(* The environment of a call *)

\* the method values a caller may pass: the three recognized ones and one more
Methods == {"CGenFF_2b6", "GAFF", "GAFF2", "MATCH"}

ArgSets ==
    [rtfFile   : {None, Some("in.rtf")},
     prmFile   : {None, Some("in.prm")},
     method    : Methods,
     acCharges : {None, Some(""), Some("gas")},
     tmpDir    : {None, Some("work")},
     netcharge : {None, Some(0), Some(1)}]

\* the directory TemporaryDirectory() creates
TmpName == "tmpXXXX"

\* a missing executable reported like a failed one
NotFoundAsFailure == "RuntimeError"

\* what subprocess.call can end with: an exit code, or the executable is not
\* found and the call raises FileNotFoundError
NotFound == "FileNotFoundError"
ReturnCodes == 0..MaxReturnCode
CallOutcomes == {Some(rc) : rc \in ReturnCodes} \cup {None}

\* the sequences a reader may report where s is expected: s itself, s
\* reordered, s without its last atom, its first atom alone, s with its last
\* atom twice, and s with its first atom replaced by alt
Variants(s, alt) ==
    IF s = <<>> THEN {<<>>, <<alt>>}
    ELSE {s, Reverse(s), Front(s), <<s[1]>>, Append(s, s[Len(s)]),
          [s EXCEPT ![1] = alt]}

\* the per-atom values a backend may produce for k atoms
Profiles == {"a", "b"}
typesOf(p, k) == [i \in 1..k |-> IF p = "a" THEN "c3" ELSE "ca"]
chargesOf(p, k) == [i \in 1..k |-> IF p = "a" THEN 7 ELSE 9]
massesOf(p, k) == [i \in 1..k |-> IF p = "a" THEN 12 ELSE 35]
impropersOf(p) == IF p = "a" THEN <<>> ELSE << <<0, 0, 0, 0>> >>

Exc(type, msg) == Some([type |-> type, msg |-> msg])

path(dir, name) == <<dir, name>>

---------------------------------------------------------------------------
(* fftype *)

Init ==
    /\ input \in InputMolecules
    /\ args \in ArgSets
    /\ heap = <<input>>
    /\ mol = 1
    /\ renamed_mol = 0
    /\ netcharge = args.netcharge
    /\ pc = "check_method"
    /\ exc = None
    /\ tmpobj = None
    /\ tmpdir = None
    /\ dirs = IF args.tmpDir = None THEN {} ELSE {Val(args.tmpDir)}
    /\ files = {}
    /\ procs = <<>>
    /\ reads = {}
    /\ returncode = None
    /\ prm = None
    /\ names = <<>> /\ elements = <<>> /\ atomtypes = <<>>
    /\ charges = <<>> /\ masses = <<>> /\ impropers = <<>>
    /\ result = None

\* raise e outside the with block: the call ends
Raise(e) == exc' = e /\ pc' = "done"

\* raise e inside the with block: the block is left through __exit__
RaiseInWith(e) == exc' = e /\ pc' = "exit_with"

CheckMethodSkipped ==
    /\ pc = "check_method"
    /\ pc' = "check_accharges"
    /\ UNCHANGED <<input, args, heap, mol, renamed_mol, netcharge, exc, fsVars,
                   procs, reads, returncode, readerVars, result>>

\* if method not in fftypemethods: raise ValueError(...)
CheckMethod ==
    /\ pc = "check_method"
    /\ IF args.method \notin Range(fftypemethods)
       THEN Raise(Exc("ValueError",
                      "Invalid method " \o args.method \o ". Available methods "
                          \o Join(",", fftypemethods)))
       ELSE pc' = "check_accharges" /\ exc' = exc
    /\ UNCHANGED <<input, args, heap, mol, renamed_mol, netcharge, fsVars,
                   procs, reads, returncode, readerVars, result>>

\* if method == 'CGenFF_2b6' and acCharges: raise ValueError('acCharges')
CheckAcCharges ==
    /\ pc = "check_accharges"
    /\ IF args.method = "CGenFF_2b6" /\ Truthy(args.acCharges)
       THEN Raise(Exc("ValueError", "acCharges"))
       ELSE pc' = "netcharge" /\ exc' = exc
    /\ UNCHANGED <<input, args, heap, mol, renamed_mol, netcharge, fsVars,
                   procs, reads, returncode, readerVars, result>>

\* if not netcharge:
netchargeFalsy(nc) == nc = None \/ Val(nc) = 0

\* if netcharge is None:
netchargeMissing(nc) == nc = None

\* if netcharge is None: netcharge = int(round(np.sum(mol.charge)))
ComputeNetcharge ==
    /\ pc = "netcharge"
    /\ netcharge' = IF netchargeMissing(netcharge)
                    THEN Some(RoundHalves(SumSeq(heap[mol].charge)))
                    ELSE netcharge
    /\ pc' = "dispatch"
    /\ UNCHANGED <<input, args, heap, mol, renamed_mol, exc, fsVars,
                   procs, reads, returncode, readerVars, result>>

\* the direct-file path taken for the CHARMM method alone
directFilesForCgenff ==
    Truthy(args.rtfFile) /\ Truthy(args.prmFile) /\ args.method = "CGenFF_2b6"

\* if rtfFile and prmFile:
directFiles == Truthy(args.rtfFile) /\ Truthy(args.prmFile)

\* the reader's tuple is bound: names and atom types as long as the name
\* sequence reported, masses as long as the element sequence reported
BindTuple(ns, es, p) ==
    /\ names' = ns
    /\ elements' = es
    /\ atomtypes' = typesOf(p, Len(ns))
    /\ charges' = chargesOf(p, Len(ns))
    /\ masses' = massesOf(p, Len(es))
    /\ impropers' = impropersOf(p)

\* prm = CharmmParameterSet(rtfFile, prmFile); names, ... = readRTF(rtfFile)
ReadDirect ==
    /\ pc = "dispatch"
    /\ directFiles
    /\ reads' = reads \cup {Val(args.rtfFile), Val(args.prmFile)}
    /\ \E ok \in BOOLEAN, p \in Profiles,
          ns \in Variants(heap[mol].name, "X1"),
          es \in Variants(heap[mol].element, "X") :
          IF ok
          THEN /\ prm' = Some([cls |-> "CharmmParameterSet",
                               from |-> <<Val(args.rtfFile), Val(args.prmFile)>>])
               /\ BindTuple(ns, es, p)
               /\ pc' = "check_elements"
               /\ exc' = exc
          ELSE /\ Raise(Exc("ReaderError", Val(args.rtfFile)))
               /\ UNCHANGED readerVars
    /\ UNCHANGED <<input, args, heap, mol, renamed_mol, netcharge, fsVars,
                   procs, returncode, result>>

\* renamed_mol = _canonicalizeAtomNames(mol); the logging of mol.segid[0]
\* raises IndexError on a molecule without atoms, after the copy was made
Canonicalize ==
    /\ pc = "dispatch"
    /\ ~directFiles
    /\ IF numAtoms(heap[mol]) = 0
       THEN /\ heap' = Append(heap, heap[mol])
            /\ Raise(Exc("IndexError", "index 0 is out of bounds"))
            /\ UNCHANGED renamed_mol
       ELSE /\ heap' = canonicalizeAtomNames(heap, mol)
            /\ renamed_mol' = Len(heap) + 1
            /\ pc' = "enter_with"
            /\ exc' = exc
    /\ UNCHANGED <<input, args, mol, netcharge, fsVars,
                   procs, reads, returncode, readerVars, result>>

\* the directory the call created, whatever tmpDir is
chosenDirOwn(own) == own

\* tmpdir = tmpdir if tmpDir is None else tmpDir
chosenDir(own) == IF args.tmpDir = None THEN own ELSE args.tmpDir

\* with TemporaryDirectory() as tmpdir: tmpdir = tmpdir if tmpDir is None else tmpDir
\* and the branch on method; the last else (line 175) needs a method that line 94
\* has let through
EnterWith ==
    /\ pc = "enter_with"
    /\ tmpobj' = Some(TmpName)
    /\ dirs' = dirs \cup {TmpName}
    /\ tmpdir' = chosenDir(Some(TmpName))
    /\ files' = files
    /\ IF args.method \in {"GAFF", "GAFF2"} THEN pc' = "write_mol2" /\ exc' = exc
       ELSE IF args.method = "CGenFF_2b6" THEN pc' = "write_pdb" /\ exc' = exc
       ELSE RaiseInWith(Exc("ValueError", "Invalid method " \o args.method))
    /\ UNCHANGED <<input, args, heap, mol, renamed_mol, netcharge,
                   procs, reads, returncode, readerVars, result>>

\* renamed_mol.write(os.path.join(tmpdir, name)), which may fail
Write(at, name, next) ==
    /\ pc = at
    /\ \E ok \in BOOLEAN :
          IF ok
          THEN /\ files' = files \cup {path(Val(tmpdir), name)}
               /\ pc' = next
               /\ exc' = exc
          ELSE /\ RaiseInWith(Exc("OSError", name))
               /\ files' = files
    /\ UNCHANGED <<input, args, heap, mol, renamed_mol, netcharge, tmpobj, tmpdir, dirs,
                   procs, reads, returncode, readerVars, result>>

WriteMol2 == Write("write_mol2", "mol.mol2", "antechamber")

WritePdb == Write("write_pdb", "mol.pdb", "match_typer")

\* the antechamber command line
antechamberCmd ==
    <<"antechamber", "-at", lower(args.method), "-nc", ToString(Val(netcharge)),
      "-fi", "mol2", "-i", "mol.mol2", "-fo", "prepi", "-o", "mol.prepi">>
        \o (IF args.acCharges # None THEN <<"-c", Val(args.acCharges)>> ELSE <<>>)

parmchk2Cmd ==
    <<"parmchk2", "-f", "prepi", "-s", lower(args.method), "-i", "mol.prepi",
      "-o", "mol.frcmod", "-a", "Y">>

matchTyperCmd ==
    <<"match-typer", "-charge", ToString(Val(netcharge)),
      "-forcefield", "top_all36_cgenff_new", "mol.pdb">>

\* the message of antechamber's failure, whatever the tool
failedMessageOfAntechamber(tool) == "\"antechamber\" failed"

\* '"antechamber" failed', '"parmchk2" failed', '"match-typer" failed'
failedMessage(tool) == "\"" \o tool \o "\" failed"

\* the return code is not looked at
callFailedNever(rc) == FALSE

\* if returncode != 0:
callFailed(rc) == rc # 0

\* returncode = subprocess.call(cmd, cwd=tmpdir); if returncode != 0: raise
\* RuntimeError('"<tool>" failed').  A tool that exits 0 has written outs.
Call(at, cmd, outs, next) ==
    /\ pc = at
    /\ \E oc \in CallOutcomes :
          /\ procs' = Append(procs, [cmd |-> cmd, cwd |-> Val(tmpdir), returncode |-> oc])
          /\ IF oc = None
             THEN /\ RaiseInWith(Exc(NotFound, cmd[1]))
                  /\ UNCHANGED <<returncode, files>>
             ELSE /\ returncode' = oc
                  /\ IF callFailed(Val(oc))
                     THEN /\ RaiseInWith(Exc("RuntimeError", failedMessage(cmd[1])))
                          /\ files' = files
                     ELSE /\ files' = files \cup {path(Val(tmpdir), f) : f \in outs}
                          /\ pc' = next
                          /\ exc' = exc
    /\ UNCHANGED <<input, args, heap, mol, renamed_mol, netcharge, tmpobj, tmpdir, dirs,
                   reads, readerVars, result>>

RunAntechamber == Call("antechamber", antechamberCmd, {"mol.prepi"}, "parmchk2")

RunParmchk2 == Call("parmchk2", parmchk2Cmd, {"mol.frcmod"}, "read_gaff")

RunMatchTyper == Call("match_typer", matchTyperCmd, {"mol.rtf", "mol.prm"}, "read_cgenff")

\* the caller's rtfFile, when there is one, in place of the generated mol.rtf
readerPathPreferSupplied(dir, name) ==
    IF name = "mol.rtf" /\ args.rtfFile # None
    THEN path("", Val(args.rtfFile))
    ELSE path(dir, name)

\* os.path.join(tmpdir, name), as handed to a reader or a constructor
readerPath(dir, name) == path(dir, name)

\* the parameter set and the tuple are read from ins in tmpdir; a reader or a
\* constructor may raise
Read(at, cls, ins) ==
    /\ pc = at
    /\ reads' = reads \cup {readerPath(Val(tmpdir), f) : f \in Range(ins)}
    /\ \E ok \in BOOLEAN, p \in Profiles,
          ns \in Variants(heap[renamed_mol].name, "X1"),
          es \in Variants(heap[mol].element, "X") :
          IF ok
          THEN /\ prm' = Some([cls |-> cls,
                               from |-> [i \in 1..Len(ins) |-> readerPath(Val(tmpdir), ins[i])]])
               /\ BindTuple(ns, es, p)
               /\ pc' = "exit_with"
               /\ exc' = exc
          ELSE /\ RaiseInWith(Exc("ReaderError", ins[1]))
               /\ UNCHANGED readerVars
    /\ UNCHANGED <<input, args, heap, mol, renamed_mol, netcharge, fsVars,
                   procs, returncode, result>>

\* prm = AmberParameterSet(mol.frcmod); readPREPI(renamed_mol, mol.prepi);
\* readFRCMOD(atomtypes, mol.frcmod)
ReadGaff == Read("read_gaff", "AmberParameterSet", <<"mol.frcmod", "mol.prepi">>)

\* prm = CharmmParameterSet(mol.rtf, mol.prm); readRTF(mol.rtf)
ReadCgenff == Read("read_cgenff", "CharmmParameterSet", <<"mol.rtf", "mol.prm">>)

\* the directory is removed only when the block ends without an exception
ExitWithLeaky ==
    /\ pc = "exit_with"
    /\ IF exc # None
       THEN pc' = "done" /\ UNCHANGED <<dirs, files>>
       ELSE /\ pc' = "check_names"
            /\ dirs' = dirs \ {Val(tmpobj)}
            /\ files' = {f \in files : f[1] # Val(tmpobj)}
    /\ UNCHANGED <<input, args, heap, mol, renamed_mol, netcharge, exc, tmpobj, tmpdir,
                   procs, reads, returncode, readerVars, result>>

\* TemporaryDirectory.__exit__: the directory the object created is removed with
\* all it holds, on a normal end of the block and on an exception, which then
\* goes on to the caller
ExitWith ==
    /\ pc = "exit_with"
    /\ dirs' = dirs \ {Val(tmpobj)}
    /\ files' = {f \in files : f[1] # Val(tmpobj)}
    /\ pc' = IF exc # None THEN "done" ELSE "check_names"
    /\ UNCHANGED <<input, args, heap, mol, renamed_mol, netcharge, exc, tmpobj, tmpdir,
                   procs, reads, returncode, readerVars, result>>

\* assert np.all(renamed_mol.name == names)
CheckNames ==
    /\ pc = "check_names"
    /\ IF NpAllEq(heap[renamed_mol].name, names)
       THEN pc' = "check_elements" /\ exc' = exc
       ELSE Raise(Exc("AssertionError", "names"))
    /\ UNCHANGED <<input, args, heap, mol, renamed_mol, netcharge, fsVars,
                   procs, reads, returncode, readerVars, result>>

\* the names reported are asserted too, against the molecule's own names
CheckElementsAndNames ==
    /\ pc = "check_elements"
    /\ IF NpAllEq(heap[mol].element, elements) /\ NpAllEq(heap[mol].name, names)
       THEN pc' = "build" /\ exc' = exc
       ELSE Raise(Exc("AssertionError", "elements"))
    /\ UNCHANGED <<input, args, heap, mol, renamed_mol, netcharge, fsVars,
                   procs, reads, returncode, readerVars, result>>

\* assert np.all(mol.element == elements)
CheckElements ==
    /\ pc = "check_elements"
    /\ IF NpAllEq(heap[mol].element, elements)
       THEN pc' = "build" /\ exc' = exc
       ELSE Raise(Exc("AssertionError", "elements"))
    /\ UNCHANGED <<input, args, heap, mol, renamed_mol, netcharge, fsVars,
                   procs, reads, returncode, readerVars, result>>

\* if acCharges: (the test of line 97 in place of the one of line 186)
overwriteChargeIfTruthy(ac) == Truthy(ac)

\* if acCharges is not None:
overwriteCharge(ac) == ac # None

\* mol = mol.copy() and the four assignments: the heap with the typed molecule
\* as a new object at Len(h) + 1
typed(h, r) ==
    Append(h, [h[r] EXCEPT !.atomtype = atomtypes,
                           !.masses = masses,
                           !.impropers = impropers,
                           !.charge = IF overwriteCharge(args.acCharges) THEN charges ELSE @])

\* lines 182-189
BuildResult ==
    /\ pc = "build"
    /\ heap' = typed(heap, mol)
    /\ mol' = Len(heap) + 1
    /\ result' = Some([prm |-> Val(prm), mol |-> Len(heap) + 1])
    /\ pc' = "done"
    /\ UNCHANGED <<input, args, renamed_mol, netcharge, exc, fsVars,
                   procs, reads, returncode, readerVars>>

Next ==
    \/ CheckMethod
    \/ CheckAcCharges
    \/ ComputeNetcharge
    \/ ReadDirect
    \/ Canonicalize
    \/ EnterWith
    \/ WriteMol2
    \/ WritePdb
    \/ RunAntechamber
    \/ RunParmchk2
    \/ RunMatchTyper
    \/ ReadGaff
    \/ ReadCgenff
    \/ ExitWith
    \/ CheckNames
    \/ CheckElements
    \/ BuildResult

Spec == Init /\ [][Next]_vars

\* the canonicalizer alone, on every molecule of CanonMolecules
CanonInit ==
    /\ input \in CanonMolecules
    /\ args = [rtfFile |-> None, prmFile |-> None, method |-> "GAFF2",
               acCharges |-> None, tmpDir |-> None, netcharge |-> None]
    /\ heap = <<input>>
    /\ mol = 1
    /\ renamed_mol = 0
    /\ netcharge = Some(0)
    /\ pc = "dispatch"
    /\ exc = None
    /\ tmpobj = None
    /\ tmpdir = None
    /\ dirs = {}
    /\ files = {}
    /\ procs = <<>>
    /\ reads = {}
    /\ returncode = None
    /\ prm = None
    /\ names = <<>> /\ elements = <<>> /\ atomtypes = <<>>
    /\ charges = <<>> /\ masses = <<>> /\ impropers = <<>>
    /\ result = None

CanonNext == Canonicalize

CanonSpec == CanonInit /\ [][CanonNext]_vars

---------------------------------------------------------------------------
(* Properties *)

returned == result # None
typedMol == heap[Val(result).mol]
bothFilesGiven == args.rtfFile # None /\ args.prmFile # None
initialDirs == IF args.tmpDir = None THEN {} ELSE {Val(args.tmpDir)}

\* C1: at every point of every call, whatever its path and outcome, the
\* caller's molecule holds the value it had when the call started; a molecule
\* returned is another object than the caller's, its name, element, segid and
\* resname arrays are the caller's originals in the original order, and its
\* atomtype, masses and impropers are the ones the backend produced.
C1_CallerUntouchedTypedIsCopy ==
    /\ heap[1] = input
    /\ returned =>
          /\ Val(result).mol # 1
          /\ Val(result).mol # renamed_mol
          /\ typedMol.name = input.name
          /\ typedMol.element = input.element
          /\ typedMol.segid = input.segid
          /\ typedMol.resname = input.resname
          /\ typedMol.atomtype = atomtypes
          /\ typedMol.masses = masses
          /\ typedMol.impropers = impropers

\* a call that canonicalized (names, segid and resname of the scratch copy all
\* differ from the caller's) has returned
C1_Witness ==
    /\ returned
    /\ renamed_mol # 0
    /\ heap[renamed_mol].name # input.name
    /\ heap[renamed_mol].segid # input.segid
    /\ heap[renamed_mol].resname # input.resname
    /\ typedMol.atomtype # input.atomtype

\* C2: the charges of a molecule returned are the backend's if acCharges is
\* not None (whatever its value, the empty string included, and on the
\* direct-file path too), and the caller's original charges if it is None.
C2_ChargeOverwrittenIffRequested ==
    returned =>
        typedMol.charge = (IF args.acCharges = None THEN input.charge ELSE charges)

\* a direct-file call with acCharges = '' has returned with the charges read
C2_Witness ==
    /\ returned
    /\ bothFilesGiven
    /\ args.acCharges = Some("")
    /\ typedMol.charge = charges
    /\ charges # input.charge

\* the ordinal the claim gives atom i: its rank among the atoms whose element
\* string equals its own
rankByElement(m, i) == Cardinality({j \in 1..i : m.element[j] = m.element[i]})

\* its rank among the atoms whose upper-cased element equals its own
rankByUpper(m, i) ==
    Cardinality({j \in 1..i : upper(m.element[j]) = upper(m.element[i])})

canonicalized == renamed_mol # 0

\* C3 as stated: the j-th atom of element symbol E is named UPPERCASE(E)
\* followed by j, counting the atoms of that very symbol.
C3_OrdinalPerElementSymbol ==
    canonicalized =>
        \A i \in 1..numAtoms(input) :
            heap[renamed_mol].name[i]
                = upper(input.element[i]) \o ToString(rankByElement(input, i))

\* C3 (amended): every atom is named by its upper-cased element symbol followed
\* by its 1-based rank, in the molecule's order, among the atoms whose
\* upper-cased symbol is the same (symbols that differ only in case share one
\* counter), and elements [C,C,N,H,H,H,H,H,O] give
\* [C1,C2,N1,H1,H2,H3,H4,H5,O1].
C3_OrdinalPerUpperCasedSymbol ==
    canonicalized =>
        /\ Len(heap[renamed_mol].name) = numAtoms(input)
        /\ \A i \in 1..numAtoms(input) :
              heap[renamed_mol].name[i]
                  = upper(input.element[i]) \o ToString(rankByUpper(input, i))
        /\ input = Ethanolamine =>
              heap[renamed_mol].name
                  = <<"C1", "C2", "N1", "H1", "H2", "H3", "H4", "H5", "O1">>

\* the nine atoms of ethanolamine have been renamed
C3_Witness ==
    /\ canonicalized
    /\ input = Ethanolamine
    /\ heap[renamed_mol].name[8] = "H5"

\* C4: the names the canonicalizer assigns are pairwise distinct over the whole
\* molecule.
C4_CanonicalNamesDistinct ==
    canonicalized =>
        \A i, j \in 1..numAtoms(input) :
            i # j => heap[renamed_mol].name[i] # heap[renamed_mol].name[j]

\* a molecule with the same element spelled 'Cl' and 'CL', and a third atom,
\* has been renamed
C4_Witness ==
    /\ canonicalized
    /\ input.element = <<"Cl", "CL", "C">>
    /\ heap[renamed_mol].name = <<"CL1", "CL2", "C1">>

\* C5: a call that canonicalized returns only if the names the backend
\* reported are the canonicalized names, element for element.
C5_ReturnsOnlyOnEqualNames ==
    (returned /\ canonicalized) => names = heap[renamed_mol].name

\* C6: a call returns only if the elements produced by the backend, or parsed
\* from the topology file, are the original molecule's elements, element for
\* element.
C6_ReturnsOnlyOnEqualElements ==
    returned => elements = input.element

\* C7: with a method outside fftypemethods the call does nothing but end in a
\* ValueError naming the method and the allowed ones: no molecule is copied or
\* renamed, no directory created, no file written or read, no process called.
C7_InvalidMethodFailsFirst ==
    args.method \notin {"CGenFF_2b6", "GAFF", "GAFF2"} =>
        /\ pc \in {"check_method", "done"}
        /\ heap = <<input>>
        /\ renamed_mol = 0
        /\ tmpobj = None
        /\ dirs = initialDirs
        /\ files = {}
        /\ reads = {}
        /\ procs = <<>>
        /\ ~returned
        /\ pc = "done" =>
              exc = Some([type |-> "ValueError",
                          msg |-> "Invalid method " \o args.method
                                    \o ". Available methods CGenFF_2b6,GAFF,GAFF2"])

\* a call with the method 'MATCH' has ended
C7_Witness ==
    /\ pc = "done"
    /\ args.method = "MATCH"
    /\ exc # None
    /\ Val(exc).type = "ValueError"

\* C8: a CGenFF call with acCharges other than None calls no process, creates
\* no directory and no file, returns nothing and ends in a ValueError.
C8_CgenffWithAcChargesRejected ==
    (args.method = "CGenFF_2b6" /\ args.acCharges # None) =>
        /\ procs = <<>>
        /\ tmpobj = None
        /\ files = {}
        /\ ~returned
        /\ pc = "done" => (exc # None /\ Val(exc).type = "ValueError")

\* no canonicalization, no directory, no file and no process
noBackendEffect ==
    /\ renamed_mol = 0
    /\ tmpobj = None
    /\ dirs = initialDirs
    /\ files = {}
    /\ procs = <<>>

suppliedFiles == {Val(args.rtfFile), Val(args.prmFile)}

\* C9 as stated: with both files given, whatever the method, a call that has
\* ended has not canonicalized, created no directory, called no process, and
\* has read the supplied files.
C9_DirectPathWhateverMethod ==
    (bothFilesGiven /\ pc = "done") => (noBackendEffect /\ reads = suppliedFiles)

passesValidation ==
    /\ args.method \in {"CGenFF_2b6", "GAFF", "GAFF2"}
    /\ ~(args.method = "CGenFF_2b6" /\ args.acCharges \notin {None, Some("")})

\* C9 (amended): with both files given, whatever the method, the call never
\* canonicalizes, creates a directory or calls a process; and if the call
\* passes the validation of lines 94-98 (a recognized method, and not CGenFF
\* with a non-empty acCharges) it reads the supplied files and nothing else,
\* whichever recognized method was given, and a parameter set returned is the
\* one built from them.
C9_DirectPathForRecognizedMethods ==
    bothFilesGiven =>
        /\ noBackendEffect
        /\ reads \subseteq suppliedFiles
        /\ (pc = "done" /\ passesValidation) => reads = suppliedFiles
        /\ (pc = "done" /\ ~passesValidation) => (reads = {} /\ ~returned)
        /\ returned =>
              Val(result).prm = [cls |-> "CharmmParameterSet",
                                 from |-> <<Val(args.rtfFile), Val(args.prmFile)>>]

\* a GAFF call with both files has returned what was read from them
C9_Witness ==
    /\ bothFilesGiven
    /\ args.method = "GAFF"
    /\ returned
    /\ reads = suppliedFiles
    /\ typedMol.atomtype = atomtypes

\* C10: once a call without tmpDir has ended, by a return or by any error, the
\* temporary directory it created does not exist and holds no file.
C10_TemporaryDirectoryRemoved ==
    (pc = "done" /\ args.tmpDir = None /\ tmpobj # None) =>
        /\ Val(tmpobj) \notin dirs
        /\ \A f \in files : f[1] # Val(tmpobj)

\* a call without tmpDir has ended in the failure of parmchk2, after
\* antechamber had written into the temporary directory
C10_Witness ==
    /\ pc = "done"
    /\ args.tmpDir = None
    /\ tmpobj # None
    /\ exc = Some([type |-> "RuntimeError", msg |-> "\"parmchk2\" failed"])
    /\ Len(procs) = 2

\* the substring test `sub in s` on strings
Contains(s, sub) ==
    \E i \in 1..(Len(s) - Len(sub) + 1) : SubSeq(s, i, i + Len(sub) - 1) = sub

workDirGiven == args.tmpDir # None

\* the files a path's tools and writer leave in the working directory
gaffFiles == {"mol.mol2", "mol.prepi", "mol.frcmod"}
cgenffFiles == {"mol.pdb", "mol.rtf", "mol.prm"}

\* the part of C11 that is about tmpDir itself: it exists at every point of the
\* call and after it, everything written is written into it and stays there,
\* every process runs in it and every reader reads from it
workDirUsedAndKept ==
    workDirGiven =>
        /\ Val(args.tmpDir) \in dirs
        /\ \A f \in files :
              /\ f[1] = Val(args.tmpDir)
              /\ f[2] \in (IF args.method = "CGenFF_2b6" THEN cgenffFiles ELSE gaffFiles)
        /\ \A i \in 1..Len(procs) : procs[i].cwd = Val(args.tmpDir)
        /\ bothFilesGiven \/ \A r \in reads : r[1] = Val(args.tmpDir)
        /\ (returned /\ ~bothFilesGiven) =>
              {f[2] : f \in files}
                  = (IF args.method = "CGenFF_2b6" THEN cgenffFiles ELSE gaffFiles)

\* C11 as stated: with tmpDir given the call creates no temporary directory of
\* its own (no TemporaryDirectory object, no directory besides tmpDir), and
\* tmpDir is used for the structure file, the processes and the readers, and is
\* kept with its files after the call.
C11_NoOwnDirectoryWithWorkDir ==
    workDirGiven =>
        /\ tmpobj = None
        /\ dirs = {Val(args.tmpDir)}
        /\ workDirUsedAndKept

\* C11 (amended): with tmpDir given the call still creates a temporary
\* directory of its own, another one than tmpDir, but writes nothing into it,
\* runs no process in it, reads nothing from it and removes it before it ends;
\* the structure file is written into tmpDir, every process runs in tmpDir, the
\* readers read from tmpDir, and tmpDir exists after the call with the files
\* written by it (all three of its path when the call returns).
C11_WorkDirUsedOwnDirectoryUnused ==
    workDirGiven =>
        /\ workDirUsedAndKept
        /\ tmpobj # None =>
              /\ Val(tmpobj) # Val(args.tmpDir)
              /\ tmpdir = args.tmpDir
              /\ \A f \in files : f[1] # Val(tmpobj)
              /\ \A r \in reads : r[1] # Val(tmpobj)
        /\ pc \in {"check_names", "check_elements", "build", "done"} =>
              dirs = {Val(args.tmpDir)}
        /\ (~bothFilesGiven /\ pc \in {"write_mol2", "write_pdb", "antechamber",
                                       "parmchk2", "match_typer", "read_gaff",
                                       "read_cgenff", "exit_with"}) =>
              (tmpobj # None /\ Val(tmpobj) \in dirs)

\* a GAFF2 call with tmpDir has returned: its own directory is gone and tmpDir
\* holds the three files
C11_Witness ==
    /\ workDirGiven
    /\ returned
    /\ args.method = "GAFF2"
    /\ tmpobj # None
    /\ dirs = {Val(args.tmpDir)}
    /\ files = {<<Val(args.tmpDir), n>> : n \in gaffFiles}

\* the tool named by a command line
toolOf(p) == p.cmd[1]

lastCall == procs[Len(procs)]

nonZeroExit == procs # <<>> /\ lastCall.returncode # None /\ Val(lastCall.returncode) # 0

\* the tool a path calls as its n-th process
nthTool(n) ==
    IF args.method = "CGenFF_2b6" THEN "match-typer"
    ELSE IF n = 1 THEN "antechamber" ELSE "parmchk2"

\* C12 as stated: after a non-zero exit the call ends in an error that carries
\* the name of the process that failed and its exit code.
C12_FailureCarriesNameAndCode ==
    (pc = "done" /\ nonZeroExit) =>
        /\ exc # None
        /\ Contains(Val(exc).msg, nthTool(Len(procs)))
        /\ Contains(Val(exc).msg, ToString(Val(lastCall.returncode)))

\* C12 (amended): from a non-zero exit of any of the three processes on, the
\* pending and final error is RuntimeError('"<name>" failed'), <name> being the
\* process that exited non-zero, and nothing is returned; the message is the
\* same for every exit code, which is left in the local returncode.
C12_FailureCarriesNameOnly ==
    nonZeroExit =>
        /\ exc = Some([type |-> "RuntimeError",
                       msg |-> "\"" \o nthTool(Len(procs)) \o "\" failed"])
        /\ returncode = lastCall.returncode
        /\ pc \in {"exit_with", "done"}
        /\ ~returned

\* parmchk2 has exited non-zero after antechamber exited 0, and the call has ended
C12_Witness ==
    /\ pc = "done"
    /\ nonZeroExit
    /\ Len(procs) = 2
    /\ toolOf(lastCall) = "parmchk2"
    /\ Val(exc).msg = "\"parmchk2\" failed"

\* the last call of subprocess.call could not start its executable
notStarted == procs # <<>> /\ lastCall.returncode = None

\* C13 as stated: a call whose executable cannot be started ends in the error
\* kind of a non-zero exit, RuntimeError.
C13_MissingToolIsProcessFailure ==
    (pc = "done" /\ notStarted) => (exc # None /\ Val(exc).type = "RuntimeError")

\* C13 (amended): when an executable cannot be started, the FileNotFoundError
\* of subprocess.call itself is the pending and final error of the call, a
\* kind distinct from the RuntimeError of a non-zero exit; no return code is
\* bound by that call and nothing is returned.
C13_MissingToolIsFileNotFoundError ==
    notStarted =>
        /\ exc # None
        /\ Val(exc).type = "FileNotFoundError"
        /\ Val(exc).type # "RuntimeError"
        /\ pc \in {"exit_with", "done"}
        /\ ~returned
        /\ Len(procs) = 1 => returncode = None

\* match-typer could not be started and the call has ended
C13_Witness ==
    /\ pc = "done"
    /\ notStarted
    /\ toolOf(lastCall) = "match-typer"
    /\ Val(exc).type = "FileNotFoundError"

\* round(h/2) as Python rounds: the integer nearest to h/2, the even one of
\* the two when h/2 lies halfway
pythonRound(h) ==
    CHOOSE n \in -(2 * numAtoms(input) + 1)..(2 * numAtoms(input) + 1) :
        /\ 2 * n - h \in {-1, 0, 1}
        /\ 2 * n # h => n % 2 = 0

\* the net charge the claim expects on a command line
expectedCharge ==
    IF args.netcharge # None THEN Val(args.netcharge)
    ELSE pythonRound(SumSeq(input.charge))

\* C14: antechamber is called with '-nc' and match-typer with '-charge'
\* followed by the caller's netcharge when one was given, 0 included, and by
\* round(sum(mol.charge)) otherwise.
C14_NetChargeOnCommandLine ==
    \A i \in 1..Len(procs) :
        /\ toolOf(procs[i]) = "antechamber" =>
              (procs[i].cmd[4] = "-nc" /\ procs[i].cmd[5] = ToString(expectedCharge))
        /\ toolOf(procs[i]) = "match-typer" =>
              (procs[i].cmd[2] = "-charge" /\ procs[i].cmd[3] = ToString(expectedCharge))
        /\ toolOf(procs[i]) \in {"antechamber", "parmchk2", "match-typer"}

\* antechamber has been called with the caller's explicit 0 for a molecule
\* whose charges sum to 1.5
C14_Witness ==
    /\ procs # <<>>
    /\ toolOf(procs[1]) = "antechamber"
    /\ args.netcharge = Some(0)
    /\ SumSeq(input.charge) = 3
    /\ procs[1].cmd[5] = "0"

\* C15 as stated: a direct-file call returns only if the names parsed from the
\* topology file are the molecule's names.
C15_DirectPathValidatesNames ==
    (bothFilesGiven /\ returned) => names = input.name

\* C15 (amended): on the direct-file path the names parsed from the topology
\* file are not validated: the call never ends in the failure of the name
\* assertion, and once the files are read with elements equal to the
\* molecule's the call returns, whatever the names parsed.
C15_DirectPathIgnoresNames ==
    bothFilesGiven =>
        /\ exc # Some([type |-> "AssertionError", msg |-> "names"])
        /\ pc # "check_names"
        /\ (pc = "done" /\ prm # None /\ elements = input.element) => returned

\* a direct-file call has returned although the names parsed differ from the
\* molecule's names
C15_Witness ==
    /\ bothFilesGiven
    /\ returned
    /\ Len(names) = Len(input.name)
    /\ names # input.name
    /\ elements = input.element

\* the call takes the GAFF/GAFF2 branch of the backend
gaffPath == args.method \in {"GAFF", "GAFF2"} /\ ~bothFilesGiven

\* the call takes the CGenFF branch of the backend
cgenffPath == args.method = "CGenFF_2b6" /\ ~bothFilesGiven

\* this step starts one more executable
startsProcess ==
    /\ Len(procs') = Len(procs) + 1
    /\ SubSeq(procs', 1, Len(procs)) = procs

finishedWithZero(p) == p.returncode = Some(0)

\* C16: on the GAFF/GAFF2 path mol.mol2 is written before antechamber starts,
\* parmchk2 starts only after antechamber has exited with 0, the output files
\* are read only after parmchk2 has exited with 0, each executable is started
\* at most once, and after a non-zero exit nothing is started and nothing read.
C16_GaffStepsOrderedNeverRetried ==
    [][gaffPath =>
        /\ procs' # procs =>
              /\ startsProcess
              /\ reads = {} /\ reads' = {}
              /\ \/ /\ toolOf(procs'[Len(procs')]) = "antechamber"
                    /\ procs = <<>>
                    /\ path(Val(tmpdir), "mol.mol2") \in files
                 \/ /\ toolOf(procs'[Len(procs')]) = "parmchk2"
                    /\ Len(procs) = 1
                    /\ toolOf(procs[1]) = "antechamber"
                    /\ finishedWithZero(procs[1])
        /\ reads' # reads =>
              /\ procs' = procs
              /\ reads = {}
              /\ Len(procs) = 2
              /\ toolOf(procs[2]) = "parmchk2"
              /\ finishedWithZero(procs[2])
        /\ nonZeroExit => (procs' = procs /\ reads' = reads)
      ]_vars

\* a GAFF call has ended after antechamber exited with 0 and parmchk2 with a
\* non-zero code: two processes were started, nothing was read
C16_Witness ==
    /\ pc = "done"
    /\ gaffPath
    /\ Len(procs) = 2
    /\ toolOf(procs[1]) = "antechamber" /\ finishedWithZero(procs[1])
    /\ toolOf(procs[2]) = "parmchk2" /\ nonZeroExit
    /\ path(Val(tmpdir), "mol.mol2") \in files \/ files = {}
    /\ reads = {}

\* the atom-type variant the claim names for a method
variantOf(method) == IF method = "GAFF" THEN "gaff" ELSE "gaff2"

\* antechamber's command line as C17 describes it
antechamberAsClaimed(cmd) ==
    /\ cmd[2] = "-at" /\ cmd[3] = variantOf(args.method)
    /\ ("-c" \in Range(cmd)) <=> (args.acCharges # None)
    /\ args.acCharges # None =>
          (Len(cmd) = 15 /\ cmd[14] = "-c" /\ cmd[15] = Val(args.acCharges))

\* C17: a GAFF or GAFF2 call starts only antechamber (variant 'gaff'/'gaff2',
\* '-c' exactly when acCharges is not None) and parmchk2, a CGenFF call only
\* match-typer and exactly once, a direct-file call no process at all.
C17_PathsMutuallyExclusive ==
    /\ bothFilesGiven => procs = <<>>
    /\ args.method \notin Range(fftypemethods) => procs = <<>>
    /\ gaffPath =>
          /\ \A i \in 1..Len(procs) :
                /\ toolOf(procs[i]) \in {"antechamber", "parmchk2"}
                /\ toolOf(procs[i]) = "antechamber" => antechamberAsClaimed(procs[i].cmd)
                /\ toolOf(procs[i]) = "parmchk2" =>
                      (procs[i].cmd[4] = "-s" /\ procs[i].cmd[5] = variantOf(args.method))
          /\ returned => Len(procs) = 2
    /\ cgenffPath =>
          /\ \A i \in 1..Len(procs) : toolOf(procs[i]) = "match-typer"
          /\ Len(procs) <= 1
          /\ returned => Len(procs) = 1

\* a GAFF2 call with acCharges = '' has returned after antechamber, started
\* with variant 'gaff2' and the '-c' flag, and parmchk2
C17_Witness ==
    /\ returned
    /\ args.method = "GAFF2"
    /\ args.acCharges = Some("")
    /\ Len(procs) = 2
    /\ procs[1].cmd[3] = "gaff2"
    /\ procs[1].cmd[14] = "-c"
    /\ toolOf(procs[2]) = "parmchk2"

\* exactly one of rtfFile and prmFile is supplied
oneFileGiven == (args.rtfFile = None) # (args.prmFile = None)

\* the backend has been entered: the call is past the choice of path without
\* having been rejected by the validation of method and acCharges
pastDispatch ==
    pc \notin {"check_method", "check_accharges", "netcharge", "dispatch"}
        /\ ~(exc # None /\ Val(exc).type = "ValueError")

\* C18: with exactly one of rtfFile and prmFile supplied the direct-file path
\* is not taken and the supplied file is never read; the molecule is
\* canonicalized and the backend of the method runs on files of its work
\* directory, and the request is not rejected for being half-specified.
C18_HalfSpecifiedRunsBackend ==
    oneFileGiven =>
        /\ \A r \in reads :
              /\ r[1] = Val(tmpdir)
              /\ r[2] \in IF args.method = "CGenFF_2b6" THEN cgenffFiles ELSE gaffFiles
        /\ pastDispatch =>
              /\ canonicalized
              /\ heap[renamed_mol] = canonicalizeAtomNames(<<input>>, 1)[2]
        /\ passesValidation => ~(exc # None /\ Val(exc).type = "ValueError")
        /\ (pc = "done" /\ passesValidation) => (canonicalized /\ tmpobj # None)
        /\ returned =>
              /\ procs # <<>>
              /\ Val(prm).from = <<path(Val(tmpdir), "mol.rtf"), path(Val(tmpdir), "mol.prm")>>
                    \/ Val(prm).from = <<path(Val(tmpdir), "mol.frcmod"),
                                         path(Val(tmpdir), "mol.prepi")>>

\* a CGenFF call given only rtfFile has returned after match-typer ran, its
\* parameters read from mol.rtf and mol.prm of the work directory
C18_Witness ==
    /\ oneFileGiven
    /\ args.rtfFile # None
    /\ args.method = "CGenFF_2b6"
    /\ returned
    /\ toolOf(procs[1]) = "match-typer"
    /\ reads = {path(Val(tmpdir), "mol.rtf"), path(Val(tmpdir), "mol.prm")}

===========================================================================
